---- MODULE Spec2Model ----
(***************************************************************************)
(* The varied-rate (per-path) API throttler and the Crypto.com order book  *)
(* data source: its relays of trades, book updates and periodic snapshots  *)
(* and its one-shot REST calls.                                            *)
(*                                                                         *)
(* Time is counted in ticks of 0.1 s.  A TaskLog is kept with its age      *)
(* (now - timestamp) instead of its timestamp, which is the same           *)
(* information as far as flushing is concerned and keeps the clock out of  *)
(* the state.  Sleeps are suspension points: the task is parked until the  *)
(* scheduler resumes it, and may be cancelled while it is parked.          *)
(***************************************************************************)
EXTENDS Integers, Sequences, FiniteSets, TLC

VARIABLES
    task_logs,      \* VariedRateThrottler._task_logs: the shared deque of TaskLog
    stop_event,     \* VariedRateThrottler._throttler_stop_event
    ctx,            \* per caller: the request context of its current execute_task
    relay,          \* which listen_for_* coroutine the relay task runs
    trading_pairs,  \* CryptoComAPIOrderBookDataSource._trading_pairs
    maxsize,        \* maxsize of the output asyncio.Queue (0: unbounded)
    task,           \* the relay task: position, pending exception, result, history
    ws,             \* the local variable ws of the relay coroutine (Unbound or a session)
    sessions,       \* every CryptoComWebsocket constructed so far, in order
    received,       \* number of payloads and snapshots received so far
    output,         \* the output queue
    published,      \* history: every message the trade or diff relay has put on
                    \* the output queue, in order
    cycle,          \* history of the current cycle of the snapshot relay
    call            \* a one-shot REST call of the data source: position and result

throttler_vars == <<task_logs, stop_event, ctx>>

config_vars == <<relay, trading_pairs, maxsize>>

relay_vars == <<task, ws, sessions, received, output, published, cycle>>

vars == <<task_logs, stop_event, ctx, relay, trading_pairs, maxsize,
          task, ws, sessions, received, output, published, cycle, call>>

----------------------------------------------------------------------------
(* Bounds of the model *)

NumCallers == 2

NumPairs == 3

MaxIterations == 3

MaxPayloads == 2

MaxTrades == 2

MaxCycles == 2

QueueSize == 1

Callers == 1..NumCallers

Pairs == 1..NumPairs

----------------------------------------------------------------------------
(* Configuration *)

GET_ORDER_BOOK_PATH_URL == "public/get-book"

GET_TICKER_PATH_URL == "public/get-ticker"

GET_INSTRUMENTS_PATH_URL == "public/get-instruments"

UNKNOWN_PATH_URL == "public/unknown"

\* period_safety_margin and retry_interval default to 0.1 s: one tick each.
period_safety_margin == 1

\* The rate limits the throttler is constructed with (ticks of 0.1 s).  The
\* last one asks for more weight than its limit holds.
RATE_LIMITS ==
    << [path_url |-> GET_ORDER_BOOK_PATH_URL, limit |-> 2, time_interval |-> 3, weight |-> 1],
       [path_url |-> GET_TICKER_PATH_URL,     limit |-> 3, time_interval |-> 3, weight |-> 2],
       [path_url |-> GET_INSTRUMENTS_PATH_URL, limit |-> 1, time_interval |-> 3, weight |-> 2] >>

\* APIThrottlerBase builds the map path_url -> RateLimit from the list.
path_rate_limit_map ==
    [p \in {RATE_LIMITS[i].path_url : i \in DOMAIN RATE_LIMITS} |->
        RATE_LIMITS[CHOOSE i \in DOMAIN RATE_LIMITS : RATE_LIMITS[i].path_url = p]]

ConfiguredPaths == DOMAIN path_rate_limit_map

PathURLs == ConfiguredPaths \cup {UNKNOWN_PATH_URL}

\* The linked limits of a RateLimit: a request on the ticker path also counts
\* against the limit of the order book path.
linked_limits(path_url) ==
    IF path_url = GET_TICKER_PATH_URL THEN {GET_ORDER_BOOK_PATH_URL} ELSE {}

\* The limits a request on a path has to find capacity in: the path's own
\* and each linked one.
applicable_limits(path_url) == {path_url} \cup linked_limits(path_url)

----------------------------------------------------------------------------
(* Pure helpers *)

Min(a, b) == IF a < b THEN a ELSE b

RECURSIVE SumWeights(_)
SumWeights(logs) ==
    IF logs = <<>> THEN 0 ELSE Head(logs).weight + SumWeights(Tail(logs))

LogsOf(logs, path_url) == SelectSeq(logs, LAMBDA entry : entry.path_url = path_url)

\* An entry is out of the window once its age reaches the window length
\* less the safety margin.
Expiry(path_url) == path_rate_limit_map[path_url].time_interval - period_safety_margin

Expired(entry) == entry.age >= Expiry(entry.path_url)

\* TaskLog(timestamp = now, path_url, weight) of the admitted request.
TaskLog(rate_limit) ==
    [age |-> 0, path_url |-> rate_limit.path_url, weight |-> rate_limit.weight]

----------------------------------------------------------------------------
(* The throttler *)

\* A faulty lookup that falls back to the first configured limit.
execute_task_default(path_url) ==
    IF path_url \in DOMAIN path_rate_limit_map
    THEN [raised |-> "none", rate_limit |-> path_rate_limit_map[path_url]]
    ELSE [raised |-> "none", rate_limit |-> RATE_LIMITS[1]]

\* VariedRateThrottler.execute_task: self._path_rate_limit_map[path_url]
\* raises KeyError for a path with no RateLimit, before any context exists.
execute_task(path_url) ==
    IF path_url \in DOMAIN path_rate_limit_map
    THEN [raised |-> "none", rate_limit |-> path_rate_limit_map[path_url]]
    ELSE [raised |-> "KeyError", rate_limit |-> [path_url |-> path_url]]

\* A faulty capacity check that counts the whole log, whatever the path.
within_capacity_all_paths(logs, rate_limit) ==
    (rate_limit.limit - Len(logs)) - rate_limit.weight >= 0

\* A faulty capacity check that is off by one.
within_capacity_strict(logs, rate_limit) ==
    (rate_limit.limit - Len(LogsOf(logs, rate_limit.path_url))) - rate_limit.weight > 0

\* A capacity check that takes the weights of the logged tasks off the
\* limit instead of their number.
within_capacity_weights(logs, rate_limit) ==
    (rate_limit.limit - SumWeights(LogsOf(logs, rate_limit.path_url)))
        - rate_limit.weight >= 0

\* A faulty capacity check with the comparison the wrong way round.
within_capacity_inverted(logs, rate_limit) ==
    (rate_limit.limit - Len(LogsOf(logs, rate_limit.path_url))) - rate_limit.weight < 0

\* VariedRateRequestContext.within_capacity: the limit less the NUMBER of
\* logged tasks of the same path, less the weight of this request.
within_capacity(logs, rate_limit) ==
    LET current_capacity == rate_limit.limit - Len(LogsOf(logs, rate_limit.path_url))
    IN  current_capacity - rate_limit.weight >= 0

\* Pruning of the entries that have aged out of their window.
flush(logs) == SelectSeq(logs, LAMBDA entry : ~Expired(entry))

\* One evaluation of the acquire loop of a request context: stop check,
\* flush, capacity check, then either the TaskLog is appended (admitted) or
\* the caller sleeps retry_interval and evaluates again.
acquire(logs, rate_limit, stopped) ==
    IF stopped
    THEN [outcome |-> "ShuttingDown", logs |-> logs]
    ELSE LET flushed == flush(logs) IN
         IF within_capacity(flushed, rate_limit)
         THEN [outcome |-> "admitted", logs |-> Append(flushed, TaskLog(rate_limit))]
         ELSE [outcome |-> "sleep", logs |-> flushed]

Idle == [state |-> "idle", path_url |-> UNKNOWN_PATH_URL, suspended |-> FALSE]

ThrottlerInit ==
    /\ task_logs = <<>>
    /\ stop_event = FALSE
    /\ ctx = [c \in Callers |-> Idle]

\* async with throttler.execute_task(path_url): the lookup and the first
\* evaluation of acquire run without a suspension point in between.
ExecuteTask(c, path_url) ==
    /\ ctx[c].state = "idle"
    /\ LET r == execute_task(path_url) IN
       IF r.raised # "none"
       THEN /\ ctx' = [ctx EXCEPT ![c] =
                        [state |-> r.raised, path_url |-> path_url, suspended |-> FALSE]]
            /\ UNCHANGED task_logs
       ELSE LET a == acquire(task_logs, r.rate_limit, stop_event) IN
            /\ task_logs' = a.logs
            /\ ctx' = [ctx EXCEPT ![c] =
                        [state |-> a.outcome, path_url |-> path_url,
                         suspended |-> (a.outcome = "sleep")]]
    /\ UNCHANGED <<stop_event, config_vars, call, relay_vars>>

\* The retry sleep of a suspended caller is over: it evaluates again.
Retry(c) ==
    /\ ctx[c].state = "sleep"
    /\ LET a == acquire(task_logs, path_rate_limit_map[ctx[c].path_url], stop_event) IN
       /\ task_logs' = a.logs
       /\ ctx' = [ctx EXCEPT ![c].state = a.outcome]
    /\ UNCHANGED <<stop_event, config_vars, call, relay_vars>>

\* The caller's task is cancelled while it is suspended in the retry sleep:
\* CancelledError leaves acquire, nothing is appended.
CancelAcquire(c) ==
    /\ ctx[c].state = "sleep"
    /\ ctx' = [ctx EXCEPT ![c].state = "CancelledError"]
    /\ UNCHANGED <<task_logs, stop_event, config_vars, call, relay_vars>>

\* The caller leaves the async with block (the permit's release is a no-op)
\* or has seen its error; it may call again.
Leave(c) ==
    /\ ctx[c].state \in {"admitted", "KeyError", "ShuttingDown", "CancelledError"}
    /\ ctx' = [ctx EXCEPT ![c] = Idle]
    /\ UNCHANGED <<task_logs, stop_event, config_vars, call, relay_vars>>

\* The throttler is told to stop.
Stop ==
    /\ ~stop_event
    /\ stop_event' = TRUE
    /\ UNCHANGED <<task_logs, ctx, config_vars, call, relay_vars>>

\* 0.1 s goes by: every logged task is one tick older.  An age is not counted
\* past the expiry of its entry, where it no longer matters.
Tick ==
    /\ task_logs' = [i \in DOMAIN task_logs |->
                        [task_logs[i] EXCEPT !.age = Min(@ + 1, Expiry(task_logs[i].path_url))]]
    /\ task_logs' # task_logs
    /\ UNCHANGED <<stop_event, ctx, config_vars, call, relay_vars>>

----------------------------------------------------------------------------
(* The relay tasks of the order book data source *)

Relays == {"trade", "diff", "snapshot"}

Unbound == 0

\* trading_pairs = None is the default of the constructor.
None == [none |-> TRUE, list |-> <<>>]

ConfiguredPairs == [none |-> FALSE, list |-> [i \in Pairs |-> i]]

TRADE_BACKOFF == 5

DIFF_BACKOFF == 30

SNAPSHOT_BACKOFF == 5

PAIR_SLEEP == 5

PAIR_BACKOFF == 5

SECONDS_PER_HOUR == 3600

NotStarted ==
    [pc |-> "init", exc |-> "none", raised |-> "none", sleep_secs |-> 0,
     cancelled_at |-> "none", iterations |-> 0, i |-> 0]

\* What the snapshot relay has done in its current cycle: the pairs it is
\* through with and how each ended, the pairs whose snapshot it put on the
\* queue, the errors it logged and the TaskLogs appended for it.
EmptyCycle ==
    [number |-> 0, attempted |-> <<>>, published |-> <<>>, errors |-> 0, permits |-> 0]

\* The item a conversion that raises stands for.
Raise == [kind |-> "raise", seq |-> 0, idx |-> 0, session |-> 0]

\* What the trade stream can deliver: a message without result, or one whose
\* data holds n entries of which entry number bad (if any) cannot be
\* converted.
Responses ==
    {[has_result |-> FALSE, n |-> 0, bad |-> 0]}
        \cup {r \in [has_result : {TRUE}, n : 0..MaxTrades, bad : 0..MaxTrades] :
                r.bad <= r.n}

\* Instrument names as the exchange writes them, letter by letter.
BTC_USDT == <<"B", "T", "C", "_", "U", "S", "D", "T">>

ETH_BTC == <<"E", "T", "H", "_", "B", "T", "C">>

Instruments == {BTC_USDT, ETH_BTC}

\* Millisecond timestamps of the feed.  TLC's integers are 32 bits wide, so
\* they are written three digits shorter than today's: the first of a second
\* and the last of the same second.
Timestamps == {1700000000, 1700000999}

\* What the book stream can deliver: a message without result, or one with
\* the instrument_name of the result and a data that is empty or whose first
\* entry, the only one that is read, has the timestamp t and converts or not.
BookResponses ==
    {[has_result |-> FALSE, n |-> 0, bad |-> 0, instrument_name |-> <<>>, t |-> 0]}
        \cup {r \in [has_result : {TRUE}, n : 0..1, bad : 0..1,
                     instrument_name : Instruments, t : Timestamps] :
                r.bad <= r.n}

\* crypto_com_utils.convert_from_exchange_trading_pair: "_" becomes "-".
convert_from_exchange_trading_pair(exchange_trading_pair) ==
    [k \in DOMAIN exchange_trading_pair |->
        IF exchange_trading_pair[k] = "_" THEN "-" ELSE exchange_trading_pair[k]]

\* crypto_com_utils.ms_timestamp_to_s: whole seconds of a millisecond
\* timestamp.
ms_timestamp_to_s(ms) == ms \div 1000

\* No REST call of the data source is under way.
NoCall ==
    [op |-> "none", pc |-> "idle", status |-> "none", raised |-> "none",
     error_status |-> "none", returned |-> "none", permits |-> 0, requests |-> 0]

\* output.put_nowait(msg): raises QueueFull on a full bounded queue.
put_nowait(queue, size, item) ==
    IF size > 0 /\ Len(queue) >= size
    THEN [raised |-> "QueueFull", queue |-> queue]
    ELSE [raised |-> "none", queue |-> Append(queue, item)]

\* A faulty loop that walks the trades of a payload backwards.
trade_messages_reversed(response, seq, w) ==
    [k \in 1..response.n |->
        IF (response.n + 1 - k) = response.bad
        THEN Raise
        ELSE [kind |-> "trade", seq |-> seq, idx |-> response.n + 1 - k, session |-> w]]

\* listen_for_trades: for trade in response["result"]["data"], in order,
\* one trade message each.  A message is labelled with the number of the
\* payload it comes from, its place in the payload and the session that
\* delivered it.
trade_messages(response, seq, w) ==
    [k \in 1..response.n |->
        IF k = response.bad
        THEN Raise
        ELSE [kind |-> "trade", seq |-> seq, idx |-> k, session |-> w]]

\* A faulty conversion that hands the millisecond timestamp on as it is.
diff_messages_ms(response, seq, w) ==
    IF response.n = 0 \/ response.bad = 1
    THEN <<Raise>>
    ELSE << [kind |-> "snapshot", seq |-> seq, idx |-> 1, session |-> w,
             trading_pair |-> convert_from_exchange_trading_pair(response.instrument_name),
             timestamp |-> response.t] >>

\* listen_for_order_book_diffs: response["result"]["data"][0] (IndexError on
\* empty data) becomes one snapshot message, with the timestamp of the entry
\* in seconds and the trading pair of the result's instrument_name.
diff_messages(response, seq, w) ==
    IF response.n = 0 \/ response.bad = 1
    THEN <<Raise>>
    ELSE << [kind |-> "snapshot", seq |-> seq, idx |-> 1, session |-> w,
             trading_pair |-> convert_from_exchange_trading_pair(response.instrument_name),
             timestamp |-> ms_timestamp_to_s(response.t)] >>

\* The body of the async for: the items are put on the queue one after the
\* other until one raises (in its conversion or in put_nowait).
RECURSIVE put_all(_, _, _)
put_all(queue, size, items) ==
    IF items = <<>>
    THEN [raised |-> "none", queue |-> queue, sent |-> <<>>]
    ELSE IF Head(items) = Raise
    THEN [raised |-> "Exception", queue |-> queue, sent |-> <<>>]
    ELSE LET p == put_nowait(queue, size, Head(items)) IN
         IF p.raised # "none"
         THEN [raised |-> p.raised, queue |-> queue, sent |-> <<>>]
         ELSE LET rest == put_all(p.queue, size, Tail(items)) IN
              [raised |-> rest.raised, queue |-> rest.queue,
               sent |-> <<Head(items)>> \o rest.sent]

\* A faulty diff relay that sleeps as long as the trade relay.
backoff_as_trades(r) ==
    IF r = "snapshot" THEN SNAPSHOT_BACKOFF ELSE TRADE_BACKOFF

\* The backoff of the except Exception clause of each relay.
backoff(r) ==
    IF r = "trade" THEN TRADE_BACKOFF
    ELSE IF r = "diff" THEN DIFF_BACKOFF
    ELSE SNAPSHOT_BACKOFF

\* except Exception: log the error, then await self._sleep(backoff).  The
\* log call has no effect on the task.
except_Exception(t) ==
    [t EXCEPT !.pc = "backoff", !.sleep_secs = backoff(relay)]

\* finally: await ws.disconnect().  The name ws is looked up first: it is
\* unbound when no constructor call has returned yet, and UnboundLocalError
\* then replaces whatever was being raised.
finally_disconnect(t, w, sess, pending) ==
    IF w = Unbound
    THEN [task |-> [t EXCEPT !.pc = "failed", !.raised = "UnboundLocalError",
                             !.sleep_secs = 0],
          ws |-> w, sessions |-> sess]
    ELSE [task |-> [t EXCEPT !.pc = "disconnect", !.exc = pending, !.sleep_secs = 0],
          ws |-> w,
          sessions |-> [sess EXCEPT ![w].disconnects = @ + 1]]

\* A faulty loop that constructs the session once and connects it again on
\* every retry.
loop_top_reusing(t, w, sess, ctor_ok) ==
    LET t1 == [t EXCEPT !.iterations = @ + 1, !.exc = "none"] IN
    IF ~ctor_ok
    THEN [task |-> except_Exception(t1), ws |-> w, sessions |-> sess]
    ELSE IF w = Unbound
    THEN [task |-> [t1 EXCEPT !.pc = "connect"],
          ws |-> Len(sess) + 1,
          sessions |-> Append(sess, [state |-> "created", disconnects |-> 0])]
    ELSE [task |-> [t1 EXCEPT !.pc = "connect"], ws |-> w, sessions |-> sess]

\* while True: try: ws = CryptoComWebsocket(); await ws.connect().  When the
\* constructor raises, ws keeps what it was bound to before.
loop_top(t, w, sess, ctor_ok) ==
    LET t1 == [t EXCEPT !.iterations = @ + 1, !.exc = "none"] IN
    IF ctor_ok
    THEN [task |-> [t1 EXCEPT !.pc = "connect"],
          ws |-> Len(sess) + 1,
          sessions |-> Append(sess, [state |-> "created", disconnects |-> 0])]
    ELSE [task |-> except_Exception(t1), ws |-> w, sessions |-> sess]

Assign(r) ==
    /\ task' = r.task
    /\ ws' = r.ws
    /\ sessions' = r.sessions

RelayInit ==
    /\ ThrottlerInit
    /\ relay \in Relays
    /\ trading_pairs \in {None, ConfiguredPairs}
    /\ maxsize \in {0, QueueSize}
    /\ task = NotStarted
    /\ ws = Unbound
    /\ sessions = <<>>
    /\ received = 0
    /\ output = <<>>
    /\ published = <<>>
    /\ cycle = EmptyCycle
    /\ call = NoCall

\* The throttler on its own: the relay task is not started.
Init ==
    /\ ThrottlerInit
    /\ relay = "snapshot"
    /\ trading_pairs = ConfiguredPairs
    /\ maxsize = 0
    /\ task = NotStarted
    /\ ws = Unbound
    /\ sessions = <<>>
    /\ received = 0
    /\ output = <<>>
    /\ published = <<>>
    /\ cycle = EmptyCycle
    /\ call = NoCall

\* The trade or diff relay task is first scheduled.
Start ==
    /\ task.pc = "init"
    /\ relay \in {"trade", "diff"}
    /\ \E ctor_ok \in BOOLEAN : Assign(loop_top(task, ws, sessions, ctor_ok))
    /\ UNCHANGED <<throttler_vars, config_vars, call, received, output, published, cycle>>

\* await ws.connect() returns or raises; on return the channel list is built
\* from self._trading_pairs (TypeError when it is None) and subscribe is sent.
ConnectDone ==
    /\ task.pc = "connect"
    /\ \E ok \in BOOLEAN :
        IF ok
        THEN /\ sessions' = [sessions EXCEPT ![ws].state = "connected"]
             /\ task' = IF trading_pairs.none
                        THEN except_Exception(task)
                        ELSE [task EXCEPT !.pc = "subscribe"]
        ELSE /\ sessions' = sessions
             /\ task' = except_Exception(task)
    /\ UNCHANGED <<throttler_vars, config_vars, call, ws, received, output, published, cycle>>

\* await ws.subscribe(...) returns or raises; on return the task waits for
\* the first message of ws.on_message().
SubscribeDone ==
    /\ task.pc = "subscribe"
    /\ \E ok \in BOOLEAN :
        IF ok
        THEN /\ sessions' = [sessions EXCEPT ![ws].state = "subscribed"]
             /\ task' = [task EXCEPT !.pc = "on_message"]
        ELSE /\ sessions' = sessions
             /\ task' = except_Exception(task)
    /\ UNCHANGED <<throttler_vars, config_vars, call, ws, received, output, published, cycle>>

\* A faulty body that reads response["result"]["data"] without testing the
\* result for None, which raises on a message without result.
on_message_unchecked(response, seq, w, queue, size) ==
    IF ~response.has_result
    THEN [raised |-> "Exception", queue |-> queue, sent |-> <<>>]
    ELSE put_all(queue, size, IF relay = "trade"
                              THEN trade_messages(response, seq, w)
                              ELSE diff_messages(response, seq, w))

\* The body of the async for on one message: a message whose result is None
\* is passed over by continue; of any other the items are converted and put
\* on the queue.
on_message(response, seq, w, queue, size) ==
    IF ~response.has_result
    THEN [raised |-> "none", queue |-> queue, sent |-> <<>>]
    ELSE put_all(queue, size, IF relay = "trade"
                              THEN trade_messages(response, seq, w)
                              ELSE diff_messages(response, seq, w))

\* The next message of the stream arrives and the body of the async for runs
\* on it, to the next wait for a message or to the except clause.
OnMessageOf(response) ==
    /\ task.pc = "on_message"
    /\ received < MaxPayloads
    /\ LET r == on_message(response, received + 1, ws, output, maxsize) IN
       /\ received' = received + 1
       /\ output' = r.queue
       /\ published' = published \o r.sent
       /\ task' = IF r.raised = "none" THEN task ELSE except_Exception(task)
    /\ UNCHANGED <<throttler_vars, config_vars, call, ws, sessions, cycle>>

\* What the stream the relay has subscribed to can deliver.
Stream == IF relay = "trade" THEN Responses ELSE BookResponses

OnMessage == \E response \in Stream : OnMessageOf(response)

\* The stream fails while the task waits for the next message.
StreamError ==
    /\ task.pc = "on_message"
    /\ task' = except_Exception(task)
    /\ UNCHANGED <<throttler_vars, config_vars, call, ws, sessions, received, output,
                   published, cycle>>

\* The backoff sleep of the except clause is over: the finally clause runs.
BackoffDone ==
    /\ task.pc = "backoff"
    /\ Assign(finally_disconnect(task, ws, sessions, "none"))
    /\ UNCHANGED <<throttler_vars, config_vars, call, received, output, published, cycle>>

\* await ws.disconnect() in the finally clause returns or raises.  What it
\* raises leaves the coroutine; on return the pending CancelledError is
\* raised again, or else the loop starts over.
DisconnectDone ==
    /\ task.pc = "disconnect"
    /\ \E ok \in BOOLEAN, ctor_ok \in BOOLEAN :
        IF ~ok
        THEN /\ task' = [task EXCEPT !.pc = "failed", !.raised = "Exception"]
             /\ UNCHANGED <<ws, sessions>>
        ELSE LET closed == [sessions EXCEPT ![ws].state = "closed"] IN
             IF task.exc = "CancelledError"
             THEN /\ task' = [task EXCEPT !.pc = "cancelled", !.raised = "CancelledError"]
                  /\ sessions' = closed
                  /\ UNCHANGED ws
             ELSE /\ task.iterations < MaxIterations
                  /\ Assign(loop_top(task, ws, closed, ctor_ok))
    /\ UNCHANGED <<throttler_vars, config_vars, call, received, output, published, cycle>>

\* The consumer behind the output queue takes the oldest message.
Consume ==
    /\ output # <<>>
    /\ output' = Tail(output)
    /\ UNCHANGED <<throttler_vars, config_vars, call, task, ws, sessions, received,
                   published, cycle>>

\* A faulty inner clause that lets the failure of a pair reach the outer
\* except clause, which starts the cycle over.
per_pair_except_aborts(t) ==
    [t EXCEPT !.pc = "outer_backoff", !.i = 0, !.sleep_secs = SNAPSHOT_BACKOFF]

\* The except Exception clause inside the for loop: log, then
\* await self._sleep(5.0); the loop then goes on with the next pair.
per_pair_except(t) ==
    [t EXCEPT !.pc = "pair_backoff", !.sleep_secs = PAIR_BACKOFF]

\* The except Exception clause around the whole cycle: log, then
\* await self._sleep(5.0); the while loop then starts the cycle over.
cycle_except(t) ==
    [t EXCEPT !.pc = "outer_backoff", !.i = 0, !.sleep_secs = SNAPSHOT_BACKOFF]

\* The state the snapshot relay works on: its task, the task log of the
\* throttler and the record of the cycle.
SnapshotState == [task |-> task, logs |-> task_logs, cycle |-> cycle]

\* The fetch, conversion or publication of the pair at position i raised:
\* the inner except clause logs one error for the pair.
pair_failed(s, i, outcome) ==
    [s EXCEPT !.task = per_pair_except([@ EXCEPT !.i = i]),
              !.cycle = [@ EXCEPT
                            !.attempted = Append(@, [pair |-> trading_pairs.list[i],
                                                     outcome |-> outcome]),
                            !.errors = @ + 1]]

\* get_order_book_data up to its first suspension point: the permit for the
\* order book path is acquired from the throttler the data source was given
\* (here the per-path one), then the GET request is issued.
enter_fetch(s, i) ==
    LET r == execute_task(GET_ORDER_BOOK_PATH_URL) IN
    IF r.raised # "none"
    THEN pair_failed(s, i, "fetch_failed")
    ELSE LET a == acquire(s.logs, r.rate_limit, stop_event)
             s1 == [s EXCEPT !.logs = a.logs, !.task = [@ EXCEPT !.i = i, !.sleep_secs = 0]]
         IN  IF a.outcome = "admitted"
             THEN [s1 EXCEPT !.task = [@ EXCEPT !.pc = "request"],
                             !.cycle = [@ EXCEPT !.permits = @ + 1]]
             ELSE IF a.outcome = "sleep"
             THEN [s1 EXCEPT !.task = [@ EXCEPT !.pc = "acquire"]]
             ELSE pair_failed(s1, i, "fetch_failed")

\* After the pair at position i: the next pair of the for loop, or after the
\* last one the sleep of delta seconds to the next full hour.
next_pair(s, i, delta) ==
    IF i < Len(trading_pairs.list)
    THEN enter_fetch(s, i + 1)
    ELSE [s EXCEPT !.task = [@ EXCEPT !.pc = "hour_sleep", !.i = 0, !.sleep_secs = delta]]

\* while True: try: for trading_pair in self._trading_pairs (TypeError when
\* it is None, caught by the outer except clause).
begin_cycle(s, delta) ==
    LET s1 == [s EXCEPT !.cycle = [EmptyCycle EXCEPT !.number = s.cycle.number + 1]] IN
    IF trading_pairs.none
    THEN [s1 EXCEPT !.task = cycle_except(@)]
    ELSE next_pair(s1, 0, delta)

AssignSnapshot(s) ==
    /\ task' = s.task
    /\ task_logs' = s.logs
    /\ cycle' = s.cycle

Deltas == {1, SECONDS_PER_HOUR}

\* The snapshot relay task is first scheduled.
StartSnapshot ==
    /\ task.pc = "init"
    /\ relay = "snapshot"
    /\ \E delta \in Deltas : AssignSnapshot(begin_cycle(SnapshotState, delta))
    /\ UNCHANGED <<stop_event, ctx, config_vars, call, ws, sessions, received, output, published>>

\* The retry sleep inside acquire is over: the capacity is evaluated again.
AcquireRetry ==
    /\ task.pc = "acquire"
    /\ AssignSnapshot(enter_fetch(SnapshotState, task.i))
    /\ UNCHANGED <<stop_event, ctx, config_vars, call, ws, sessions, received, output, published>>

\* await client.get(...) returns with status 200, returns with another
\* status (IOError is raised), or raises.
RequestDone ==
    /\ task.pc = "request"
    /\ \E result \in {"200", "500", "ClientError"} :
        IF result = "200"
        THEN /\ task' = [task EXCEPT !.pc = "json"]
             /\ UNCHANGED <<task_logs, cycle>>
        ELSE AssignSnapshot(pair_failed(SnapshotState, task.i, "fetch_failed"))
    /\ UNCHANGED <<stop_event, ctx, config_vars, call, ws, sessions, received, output, published>>

\* await safe_gather(orderbook_response.json()) returns or raises; the
\* snapshot is then converted to a message (which may raise), the message is
\* put on the queue (which may raise) and the task sleeps 5 s.
JsonDone ==
    /\ task.pc = "json"
    /\ \E parsed \in BOOLEAN, convertible \in BOOLEAN :
        LET msg == [kind |-> "snapshot", seq |-> cycle.number,
                    idx |-> trading_pairs.list[task.i], session |-> 0]
            p == put_nowait(output, maxsize, msg)
        IN  IF ~parsed
            THEN /\ AssignSnapshot(pair_failed(SnapshotState, task.i, "fetch_failed"))
                 /\ UNCHANGED output
            ELSE IF ~convertible
            THEN /\ AssignSnapshot(pair_failed(SnapshotState, task.i, "conversion_failed"))
                 /\ UNCHANGED output
            ELSE IF p.raised # "none"
            THEN /\ AssignSnapshot(pair_failed(SnapshotState, task.i, "publish_failed"))
                 /\ UNCHANGED output
            ELSE /\ output' = p.queue
                 /\ task' = [task EXCEPT !.pc = "pair_sleep", !.sleep_secs = PAIR_SLEEP]
                 /\ cycle' = [cycle EXCEPT
                                !.attempted = Append(@, [pair |-> msg.idx,
                                                         outcome |-> "published"]),
                                !.published = Append(@, msg.idx)]
                 /\ UNCHANGED task_logs
    /\ UNCHANGED <<stop_event, ctx, config_vars, call, ws, sessions, received, published>>

\* The sleep after a pair (published or failed) is over.
PairSleepDone ==
    /\ task.pc \in {"pair_sleep", "pair_backoff"}
    /\ \E delta \in Deltas : AssignSnapshot(next_pair(SnapshotState, task.i, delta))
    /\ UNCHANGED <<stop_event, ctx, config_vars, call, ws, sessions, received, output, published>>

\* The sleep to the next full hour is over: the while loop starts a cycle.
HourSleepDone ==
    /\ task.pc = "hour_sleep"
    /\ cycle.number < MaxCycles
    /\ \E delta \in Deltas : AssignSnapshot(begin_cycle(SnapshotState, delta))
    /\ UNCHANGED <<stop_event, ctx, config_vars, call, ws, sessions, received, output, published>>

\* The backoff of the outer except clause is over: the while loop starts a
\* cycle.
OuterBackoffDone ==
    /\ task.pc = "outer_backoff"
    /\ cycle.number < MaxCycles
    /\ \E delta \in Deltas : AssignSnapshot(begin_cycle(SnapshotState, delta))
    /\ UNCHANGED <<stop_event, ctx, config_vars, call, ws, sessions, received, output, published>>

SuspensionPoints ==
    {"connect", "subscribe", "on_message", "backoff", "disconnect",
     "acquire", "request", "json", "pair_sleep", "pair_backoff", "hour_sleep",
     "outer_backoff"}

\* The relay task is cancelled: CancelledError is raised at the await the
\* task is suspended in (or on its first step).  In the trade and diff relay
\* it passes the except clauses, or leaves the backoff sleep of the except
\* Exception clause, and the finally clause runs; raised inside the finally
\* clause, or anywhere in the snapshot relay, it leaves the coroutine.
Cancel ==
    /\ task.pc \in SuspensionPoints \cup {"init"}
    /\ LET t == [task EXCEPT !.cancelled_at = task.pc] IN
       IF task.pc \in {"connect", "subscribe", "on_message", "backoff"}
       THEN Assign(finally_disconnect(t, ws, sessions, "CancelledError"))
       ELSE /\ task' = [t EXCEPT !.pc = "cancelled", !.raised = "CancelledError",
                                 !.sleep_secs = 0]
            /\ UNCHANGED <<ws, sessions>>
    /\ UNCHANGED <<throttler_vars, config_vars, call, received, output, published, cycle>>

RelayNext ==
    \/ Start
    \/ ConnectDone
    \/ SubscribeDone
    \/ OnMessage
    \/ StreamError
    \/ BackoffDone
    \/ DisconnectDone
    \/ StartSnapshot
    \/ AcquireRetry
    \/ RequestDone
    \/ JsonDone
    \/ PairSleepDone
    \/ HourSleepDone
    \/ OuterBackoffDone
    \/ Cancel
    \/ Consume
    \/ Tick

RelaySpec == RelayInit /\ [][RelayNext]_vars

----------------------------------------------------------------------------
(* The one-shot REST calls of the data source *)

RestCalls == {"fetch_trading_pairs", "get_order_book_data"}

\* What the server or the network can answer to a request.
Answers == {"200", "500", "ClientError"}

\* The path each call asks the throttler's permit for.
path_url_of(op) ==
    IF op = "fetch_trading_pairs" THEN GET_TICKER_PATH_URL ELSE GET_ORDER_BOOK_PATH_URL

\* async with throttler.execute_task(path_url): the body of the block is
\* entered, and the request issued, once acquire has appended the TaskLog;
\* what execute_task or acquire raises leaves the call.
enter_call(c, logs, stopped) ==
    LET r == execute_task(path_url_of(c.op)) IN
    IF r.raised # "none"
    THEN [call |-> [c EXCEPT !.pc = "done", !.raised = r.raised], logs |-> logs]
    ELSE LET a == acquire(logs, r.rate_limit, stopped) IN
         IF a.outcome = "admitted"
         THEN [call |-> [c EXCEPT !.pc = "request", !.permits = @ + 1,
                                  !.requests = @ + 1],
               logs |-> a.logs]
         ELSE IF a.outcome = "sleep"
         THEN [call |-> [c EXCEPT !.pc = "acquire"], logs |-> a.logs]
         ELSE [call |-> [c EXCEPT !.pc = "done", !.raised = a.outcome], logs |-> a.logs]

\* fetch_trading_pairs from the answer to client.get on: client.get is
\* outside the try block, so what it raises leaves the call; a status other
\* than 200 returns []; what json() or the conversion raises is passed over
\* and [] is returned.
fetch_trading_pairs(c, event) ==
    IF event = "ClientError"
    THEN [c EXCEPT !.pc = "done", !.raised = "ClientError"]
    ELSE IF event = "200"
    THEN [c EXCEPT !.pc = "json", !.status = event]
    ELSE IF event = "json_done"
    THEN [c EXCEPT !.pc = "done", !.returned = "pairs"]
    ELSE IF event = "json_raised"
    THEN [c EXCEPT !.pc = "done", !.returned = "empty"]
    ELSE [c EXCEPT !.pc = "done", !.status = event, !.returned = "empty"]

\* A faulty status check that takes every answer for a success.
get_order_book_data_any_status(c, event) ==
    IF event = "ClientError"
    THEN [c EXCEPT !.pc = "done", !.raised = "ClientError"]
    ELSE IF event = "json_done"
    THEN [c EXCEPT !.pc = "done", !.returned = "snapshot"]
    ELSE IF event = "json_raised"
    THEN [c EXCEPT !.pc = "done", !.raised = "Exception"]
    ELSE [c EXCEPT !.pc = "json", !.status = event]

\* get_order_book_data from the answer to client.get on: a status other than
\* 200 raises IOError with the status in its message; what client.get, json()
\* or the indexing of the data raises leaves the call.
get_order_book_data(c, event) ==
    IF event = "ClientError"
    THEN [c EXCEPT !.pc = "done", !.raised = "ClientError"]
    ELSE IF event = "200"
    THEN [c EXCEPT !.pc = "json", !.status = event]
    ELSE IF event = "json_done"
    THEN [c EXCEPT !.pc = "done", !.returned = "snapshot"]
    ELSE IF event = "json_raised"
    THEN [c EXCEPT !.pc = "done", !.raised = "Exception"]
    ELSE [c EXCEPT !.pc = "done", !.status = event, !.raised = "IOError",
                   !.error_status = event]

rest_call(c, event) ==
    IF c.op = "fetch_trading_pairs"
    THEN fetch_trading_pairs(c, event)
    ELSE get_order_book_data(c, event)

\* One of the two calls is made.
CallStart(op) ==
    /\ call.pc = "idle"
    /\ LET e == enter_call([NoCall EXCEPT !.op = op], task_logs, stop_event) IN
       /\ call' = e.call
       /\ task_logs' = e.logs
    /\ UNCHANGED <<stop_event, ctx, config_vars, relay_vars>>

\* The retry sleep inside acquire is over: the capacity is evaluated again.
CallAcquireRetry ==
    /\ call.pc = "acquire"
    /\ LET e == enter_call(call, task_logs, stop_event) IN
       /\ call' = e.call
       /\ task_logs' = e.logs
    /\ UNCHANGED <<stop_event, ctx, config_vars, relay_vars>>

\* client.get returns a response or raises.
CallResponse ==
    /\ call.pc = "request"
    /\ \E answer \in Answers : call' = rest_call(call, answer)
    /\ UNCHANGED <<throttler_vars, config_vars, relay_vars>>

\* response.json() and the reading of the parsed data return or raise.
CallJson ==
    /\ call.pc = "json"
    /\ \E event \in {"json_done", "json_raised"} : call' = rest_call(call, event)
    /\ UNCHANGED <<throttler_vars, config_vars, relay_vars>>

\* The calling task is cancelled at one of the awaits of the call.
CallCancel ==
    /\ call.pc \in {"acquire", "request", "json"}
    /\ call' = [call EXCEPT !.pc = "done", !.raised = "CancelledError"]
    /\ UNCHANGED <<throttler_vars, config_vars, relay_vars>>

\* The caller has its result or its error; it may call again.
CallReturn ==
    /\ call.pc = "done"
    /\ call' = NoCall
    /\ UNCHANGED <<throttler_vars, config_vars, relay_vars>>

\* One other user of the throttler, calling again and again on either path,
\* is enough to fill the window the call needs.
Competitor == CHOOSE c \in Callers : TRUE

RestNext ==
    \/ \E op \in RestCalls : CallStart(op)
    \/ CallAcquireRetry
    \/ CallResponse
    \/ CallJson
    \/ CallCancel
    \/ CallReturn
    \/ \E p \in ConfiguredPaths : ExecuteTask(Competitor, p)
    \/ Retry(Competitor)
    \/ Leave(Competitor)
    \/ Stop
    \/ Tick

RestSpec == Init /\ [][RestNext]_vars

----------------------------------------------------------------------------
(* Acquisition under fair scheduling *)

\* Finitely many acquisitions compete: each caller of the throttler makes
\* one call and keeps its permit, and the data source makes one REST call.
\* The event loop resumes every task whose retry sleep is over, and time
\* goes by.
FairNext ==
    \/ \E c \in Callers, p \in ConfiguredPaths : ExecuteTask(c, p)
    \/ \E c \in Callers : Retry(c)
    \/ \E c \in Callers : CancelAcquire(c)
    \/ \E op \in RestCalls : CallStart(op)
    \/ CallAcquireRetry
    \/ CallCancel
    \/ Stop
    \/ Tick

FairSpec ==
    /\ Init
    /\ [][FairNext]_vars
    /\ \A c \in Callers : WF_vars(Retry(c))
    /\ WF_vars(CallAcquireRetry)
    /\ WF_vars(Tick)

----------------------------------------------------------------------------
(* The specifications *)

Next ==
    \/ \E c \in Callers, p \in PathURLs : ExecuteTask(c, p)
    \/ \E c \in Callers : Retry(c)
    \/ \E c \in Callers : CancelAcquire(c)
    \/ \E c \in Callers : Leave(c)
    \/ Stop
    \/ Tick

Spec == Init /\ [][Next]_vars

----------------------------------------------------------------------------
(* Claims about the throttler, checked under Spec *)

BookLimit == path_rate_limit_map[GET_ORDER_BOOK_PATH_URL]

TickerLimit == path_rate_limit_map[GET_TICKER_PATH_URL]

\* C1: for every configured endpoint, the weights of the entries in the task
\* log for that endpoint sum to at most the endpoint's limit, in every
\* reachable state.
C1_WeightSumWithinLimit ==
    \A p \in ConfiguredPaths :
        SumWeights(LogsOf(task_logs, p)) <= path_rate_limit_map[p].limit

\* C2: a caller whose execute_task names a path with no RateLimit ends in the
\* lookup error in that same step with the task log unchanged; it is never
\* admitted or suspended, and no entry for such a path is ever in the log.
C2_UnconfiguredRejected ==
    /\ [](/\ \A c \in Callers :
                ctx[c].path_url \notin ConfiguredPaths
                    => ctx[c].state \in {"idle", "KeyError"}
          /\ \A i \in DOMAIN task_logs : task_logs[i].path_url \in ConfiguredPaths)
    /\ [][\A c \in Callers :
            (/\ ctx[c].state = "idle"
             /\ ctx'[c].state # "idle"
             /\ ctx'[c].path_url \notin ConfiguredPaths)
                => (ctx'[c].state = "KeyError" /\ task_logs' = task_logs)]_vars

\* C2 witness: a call for the unconfigured path was rejected while the log
\* held entries.
C2_Witness ==
    \E c \in Callers :
        /\ ctx[c].state = "KeyError"
        /\ ctx[c].path_url = UNKNOWN_PATH_URL
        /\ task_logs # <<>>

\* C3: on the weight-1 endpoint with limit L, an evaluation (the first one of
\* a call, or the one after a retry sleep) admits the caller exactly when
\* fewer than L entries of the endpoint are still in the window; a first
\* evaluation that admits does so without suspension, and with L entries in
\* the window the caller stays suspended and nothing is logged for it.  The
\* log never holds more than L entries of the endpoint.
C3_AdmitUpToLimitThenSuspend ==
    /\ [](Len(LogsOf(task_logs, GET_ORDER_BOOK_PATH_URL)) <= BookLimit.limit)
    /\ [][\A c \in Callers :
            LET inWindow == Len(LogsOf(flush(task_logs), GET_ORDER_BOOK_PATH_URL))
            IN  /\ (ExecuteTask(c, GET_ORDER_BOOK_PATH_URL) /\ ~stop_event)
                     => IF inWindow < BookLimit.limit
                        THEN /\ ctx'[c].state = "admitted"
                             /\ ~ctx'[c].suspended
                             /\ task_logs' = Append(flush(task_logs), TaskLog(BookLimit))
                        ELSE /\ ctx'[c].state = "sleep"
                             /\ ctx'[c].suspended
                             /\ task_logs' = flush(task_logs)
                /\ (Retry(c) /\ ctx[c].path_url = GET_ORDER_BOOK_PATH_URL /\ ~stop_event)
                     => IF inWindow < BookLimit.limit
                        THEN /\ ctx'[c].state = "admitted"
                             /\ task_logs' = Append(flush(task_logs), TaskLog(BookLimit))
                        ELSE /\ ctx'[c].state = "sleep"
                             /\ task_logs' = flush(task_logs)]_vars

\* C3 witness: the (L+1)-th acquisition was suspended and has now been
\* admitted, the log again holding L entries of the endpoint, the oldest of
\* the first L having been pruned.
C3_Witness ==
    \E c \in Callers :
        /\ ctx[c].state = "admitted"
        /\ ctx[c].suspended
        /\ ctx[c].path_url = GET_ORDER_BOOK_PATH_URL
        /\ Len(LogsOf(task_logs, GET_ORDER_BOOK_PATH_URL)) = BookLimit.limit

\* C4: the capacity decision for an endpoint is the same on the whole task
\* log as on the log restricted to that endpoint's own entries, and an
\* evaluation of acquire for an endpoint admits the caller exactly when the
\* endpoint's own entries still in the window leave room for its weight:
\* entries of other endpoints neither block nor delay it.
C4_PerPathIndependence ==
    /\ [](\A p \in ConfiguredPaths :
            within_capacity(task_logs, path_rate_limit_map[p])
                = within_capacity(LogsOf(task_logs, p), path_rate_limit_map[p]))
    /\ [][\A c \in Callers, p \in ConfiguredPaths :
            LET own == Len(LogsOf(flush(task_logs), p))
                room == own + path_rate_limit_map[p].weight <= path_rate_limit_map[p].limit
            IN  ((ExecuteTask(c, p) \/ (Retry(c) /\ ctx[c].path_url = p)) /\ ~stop_event)
                    => /\ room => ctx'[c].state = "admitted"
                       /\ ~room => ctx'[c].state = "sleep"]_vars

\* C4 witness: the ticker endpoint is out of capacity and the log is longer
\* than the book endpoint's limit, yet the book endpoint has capacity.
C4_Witness ==
    /\ ~within_capacity(task_logs, TickerLimit)
    /\ Len(task_logs) > BookLimit.limit
    /\ within_capacity(task_logs, BookLimit)

\* C14: a caller is admitted only in a state in which every limit that
\* applies to its path, the path's own and each linked one, has room for the
\* weight of the request among the entries still in the window (room being
\* counted the way within_capacity counts it).
C14_AdmittedOnlyWithAllLinkedLimits ==
    [][\A c \in Callers :
        (ctx[c].state # "admitted" /\ ctx'[c].state = "admitted")
            => \A q \in applicable_limits(ctx'[c].path_url) :
                    within_capacity(flush(task_logs),
                        [path_rate_limit_map[q] EXCEPT
                            !.weight = path_rate_limit_map[ctx'[c].path_url].weight])]_vars

\* C19: for every configured endpoint, with limit L and weight w,
\* within_capacity is true exactly when the log holds at most L - w entries
\* of the endpoint; the log never holds more than max(0, L - w + 1) entries
\* of the endpoint; and when w > L no caller is ever admitted on it and the
\* log holds no entry of it.
C19_EntryCountBound ==
    \A p \in ConfiguredPaths :
        LET L == path_rate_limit_map[p].limit
            w == path_rate_limit_map[p].weight
            count == Len(LogsOf(task_logs, p))
        IN  /\ within_capacity(task_logs, path_rate_limit_map[p]) <=> (count <= L - w)
            /\ count <= (IF L - w + 1 > 0 THEN L - w + 1 ELSE 0)
            /\ w > L => /\ count = 0
                        /\ \A c \in Callers :
                            ctx[c].path_url = p
                                => ctx[c].state \in {"idle", "sleep", "CancelledError",
                                                     "ShuttingDown"}

\* C19 witness: the log holds L - w + 1 = 2 entries of the ticker endpoint
\* (limit 3, weight 2), which has no capacity left, while a caller of the
\* endpoint whose weight exceeds its limit is suspended.
C19_Witness ==
    /\ Len(LogsOf(task_logs, GET_TICKER_PATH_URL)) = TickerLimit.limit - TickerLimit.weight + 1
    /\ ~within_capacity(task_logs, TickerLimit)
    /\ \E c \in Callers :
        /\ ctx[c].path_url = GET_INSTRUMENTS_PATH_URL
        /\ ctx[c].state = "sleep"
        /\ ctx[c].suspended

\* The callers that are suspended in acquire on the endpoint p.
Suspended(p) == {c \in Callers : ctx[c].state = "sleep" /\ ctx[c].path_url = p}

----------------------------------------------------------------------------
(* Claims about the relay tasks, checked under RelaySpec *)

BackoffSleeps == {"backoff", "pair_backoff", "outer_backoff"}

\* The message at place i of a history comes before the one at place j.
Before(m1, m2) == m1.seq < m2.seq \/ (m1.seq = m2.seq /\ m1.idx < m2.idx)

InOrder(msgs) == \A i, j \in DOMAIN msgs : i < j => Before(msgs[i], msgs[j])

\* C5: a task cancelled while suspended in the throttler's acquire ends with
\* CancelledError and no TaskLog was appended for the acquire it was in; a
\* task cancelled in a backoff sleep has CancelledError on its way out (the
\* cleanup of a constructed session running, or the task ended by it) and no
\* disconnect is attempted through a name that was never bound to a session.
C5_CancelWithoutLogOrUnboundDisconnect ==
    /\ task.cancelled_at = "acquire"
        => /\ task.pc = "cancelled"
           /\ task.raised = "CancelledError"
           /\ cycle.permits = Len(cycle.attempted)
    /\ task.cancelled_at \in BackoffSleeps
        => /\ task.raised # "UnboundLocalError"
           /\ \/ task.pc = "cancelled" /\ task.raised = "CancelledError"
              \/ task.pc = "disconnect" /\ task.exc = "CancelledError"

\* C6: every session the trade or diff relay has constructed has had
\* disconnect invoked at most once; exactly once as soon as its iteration is
\* in or past the finally clause, so before the next session exists.
C6_DisconnectExactlyOncePerSession ==
    \A n \in DOMAIN sessions :
        /\ sessions[n].disconnects <= 1
        /\ n < Len(sessions) => sessions[n].disconnects = 1
        /\ (n = ws /\ task.pc \in {"disconnect", "cancelled", "failed"})
                => sessions[n].disconnects = 1

\* C7: a relay task never ends with an error other than cancellation.
C7_EndsOnlyByCancellation ==
    /\ task.pc # "failed"
    /\ task.raised \in {"none", "CancelledError"}

\* C8: once a relay task has been cancelled, it is either running the
\* disconnect of its session with CancelledError pending or has ended with
\* CancelledError; it is in no backoff sleep and at no other await.
C8_CancellationPropagates ==
    task.cancelled_at # "none"
        => \/ task.pc = "cancelled" /\ task.raised = "CancelledError"
           \/ (/\ task.pc = "disconnect"
               /\ task.exc = "CancelledError"
               /\ task.raised = "none"
               /\ ws # Unbound)

AttemptedPairs == [n \in DOMAIN cycle.attempted |-> cycle.attempted[n].pair]

FetchSucceeded(a) == a.outcome # "fetch_failed"

WasPublished(a) == a.outcome = "published"

PairsOf(attempts) == [n \in DOMAIN attempts |-> attempts[n].pair]

FetchedPairs == PairsOf(SelectSeq(cycle.attempted, FetchSucceeded))

PublishedPairs == PairsOf(SelectSeq(cycle.attempted, WasPublished))

\* The part of a cycle every statement about it shares: the pairs are gone
\* through once each in configured order, a failure of a pair never takes
\* the task to the outer except clause, and the sleep to the next hour is
\* entered with every pair attempted and one error logged per pair that did
\* not publish.
CycleShape ==
    ~trading_pairs.none =>
        /\ task.pc # "outer_backoff"
        /\ AttemptedPairs = SubSeq(trading_pairs.list, 1, Len(cycle.attempted))
        /\ task.pc \in {"acquire", "request", "json"} => Len(cycle.attempted) = task.i - 1
        /\ task.pc \in {"pair_sleep", "pair_backoff"} => Len(cycle.attempted) = task.i
        /\ task.pc = "hour_sleep" => AttemptedPairs = trading_pairs.list
        /\ cycle.errors + Len(cycle.published) = Len(cycle.attempted)

\* C9 as stated: in addition to the shape of the cycle, the pairs whose
\* snapshot was published in the cycle are exactly the pairs whose fetch
\* succeeded.
C9_EveryFetchedPairPublished ==
    /\ CycleShape
    /\ ~trading_pairs.none => cycle.published = FetchedPairs

\* C9 amended: in addition to the shape of the cycle, the pairs whose
\* snapshot was published in the cycle are exactly the pairs whose fetch,
\* conversion and put_nowait all succeeded, each once and in configured
\* order; a pair that failed at any of the three published nothing.
C9_PerPairIsolation ==
    /\ CycleShape
    /\ ~trading_pairs.none =>
        /\ cycle.published = PublishedPairs
        /\ \A n \in DOMAIN cycle.attempted :
                cycle.attempted[n].outcome # "published"
                    => \A k \in DOMAIN cycle.published :
                            cycle.published[k] # cycle.attempted[n].pair

\* C9 witness: a cycle over three or more pairs in which the second pair's
\* fetch failed and the first and third were published has reached the sleep
\* to the next hour with one error logged.
C9_Witness ==
    /\ task.pc = "hour_sleep"
    /\ Len(cycle.attempted) >= 3
    /\ cycle.attempted[1].outcome = "published"
    /\ cycle.attempted[2].outcome = "fetch_failed"
    /\ \A n \in DOMAIN cycle.attempted : n # 2 => cycle.attempted[n].outcome = "published"
    /\ cycle.errors = 1
    /\ Len(cycle.published) = Len(cycle.attempted) - 1

\* C10: the messages a trade or diff relay has put on the output queue are
\* in the order of the payloads they come from and, within a payload, of
\* their place in it, with no message twice, across reconnects too; the
\* queue holds them in that order.
C10_PublishedInReceiveOrder ==
    relay \in {"trade", "diff"} => (InOrder(published) /\ InOrder(output))

\* C10 witness: the trade relay has published two trades of one payload and,
\* from a later session, a trade of a later payload.
C10_Witness ==
    /\ relay = "trade"
    /\ \E i, j, k \in DOMAIN published :
        /\ i < j /\ j < k
        /\ published[i].seq = published[j].seq
        /\ published[j].session < published[k].session

\* C13: putting a message on the output queue never suspends the relay, and
\* a message that meets a full bounded queue is dealt with by dropping (the
\* queue stays within its size) while the relay stays in the async for of the
\* same session: it is not sent to the except clause, and its session is
\* neither disconnected nor replaced.
C13_FullChannelDropsAndContinues ==
    [][\A response \in Stream :
        (/\ OnMessageOf(response)
         /\ on_message(response, received + 1, ws, output, maxsize).raised = "QueueFull")
            => /\ task'.pc = "on_message"
               /\ ws' = ws
               /\ sessions' = sessions
               /\ Len(output') <= maxsize]_vars

\* C15: in the trade and the diff relay a streamed message without result
\* puts nothing on the output queue, raises nothing (the task is not sent to
\* the except clause), leaves the session as it is, subscribed and not
\* disconnected, and leaves the task waiting for the next message of that
\* same session.
C15_NoResultIgnored ==
    [][\A response \in {r \in Stream : ~r.has_result} :
        (task.pc = "on_message" /\ received' # received /\ OnMessageOf(response))
            => /\ output' = output
               /\ published' = published
               /\ task' = task
               /\ task'.pc = "on_message"
               /\ ws' = ws
               /\ sessions' = sessions
               /\ sessions'[ws'].state = "subscribed"
               /\ sessions'[ws'].disconnects = 0]_vars

\* C15 witness: the diff relay has received a message in its first session
\* and is waiting for the next one of that session with nothing published:
\* the message had no result (any other is published or raises).
C15_Witness ==
    /\ relay = "diff"
    /\ received > 0
    /\ task.pc = "on_message"
    /\ task.iterations = 1
    /\ published = <<>>
    /\ sessions[ws].state = "subscribed"

\* The trading pair the symbol mapping gives each instrument name.
SymbolMapping(instrument_name) ==
    IF instrument_name = BTC_USDT
    THEN <<"B", "T", "C", "-", "U", "S", "D", "T">>
    ELSE <<"E", "T", "H", "-", "B", "T", "C">>

\* The message m is the snapshot of the book payload response: of snapshot
\* kind, for the pair of the payload's instrument, at the second its
\* millisecond timestamp t lies in (a number of seconds being small enough
\* to be written in milliseconds in 32 bits).
SnapshotOf(m, response) ==
    /\ m.kind = "snapshot"
    /\ m.trading_pair = SymbolMapping(response.instrument_name)
    /\ m.timestamp <= 2147482
    /\ m.timestamp * 1000 <= response.t
    /\ response.t < (m.timestamp + 1) * 1000

\* The step has published exactly one message, the snapshot of response, at
\* the tail of the queue.
PublishedOne(response) ==
    /\ Len(published') = Len(published) + 1
    /\ SnapshotOf(published'[Len(published')], response)
    /\ output' = Append(output, published'[Len(published')])

\* C16 as stated: in the diff relay, every streamed payload that has a
\* result yields exactly one published message, which is the snapshot of the
\* payload.
C16_EveryBookPayloadPublished ==
    [][\A response \in {r \in BookResponses : r.has_result} :
        (relay = "diff" /\ received' # received /\ OnMessageOf(response))
            => PublishedOne(response)]_vars

\* C16 amended: in the diff relay, a streamed payload that has a result
\* yields exactly one published message, the snapshot of the payload, when
\* its data is not empty, its first entry converts and the queue is not
\* full, and the relay stays in the async for; any other payload with a
\* result publishes nothing and sends the relay to the except clause.
C16_BookPayloadConversion ==
    [][\A response \in {r \in BookResponses : r.has_result} :
        (relay = "diff" /\ received' # received /\ OnMessageOf(response))
            => IF /\ response.n > 0
                  /\ response.bad # 1
                  /\ ~(maxsize > 0 /\ Len(output) >= maxsize)
               THEN /\ PublishedOne(response)
                    /\ task'.pc = "on_message"
               ELSE /\ published' = published
                    /\ output' = output
                    /\ task'.pc = "backoff"]_vars

\* C16 witness: the diff relay has published the snapshot of a payload of
\* instrument BTC_USDT: pair BTC-USDT, timestamp 1 700 000 s.
C16_Witness ==
    /\ relay = "diff"
    /\ \E k \in DOMAIN published :
        /\ published[k].kind = "snapshot"
        /\ published[k].trading_pair = SymbolMapping(BTC_USDT)
        /\ published[k].timestamp = ms_timestamp_to_s(1700000999)
        /\ published[k].timestamp * 1000 = 1700000000

\* C17: in the trade and diff relays the session being connected,
\* subscribed or iterated is the one constructed last, in the current
\* iteration, and disconnect has never been invoked on it; every iteration
\* whose constructor returns has a session of its own, new and different
\* from every earlier one; and a session on which disconnect has been
\* invoked is never connected, subscribed or iterated again.
C17_SessionNeverReused ==
    /\ [](/\ task.pc \in {"connect", "subscribe", "on_message"}
                => /\ ws = Len(sessions)
                   /\ sessions[ws].disconnects = 0
                   /\ sessions[ws].state # "closed"
          /\ Len(sessions) <= task.iterations)
    /\ [][/\ task'.iterations > task.iterations
                => \/ /\ task'.pc = "connect"
                      /\ Len(sessions') = Len(sessions) + 1
                      /\ ws' = Len(sessions')
                      /\ ws' # ws
                      /\ sessions'[ws'] = [state |-> "created", disconnects |-> 0]
                   \/ /\ task'.pc = "backoff"
                      /\ Len(sessions') = Len(sessions)
                      /\ ws' = ws
          /\ \A n \in DOMAIN sessions :
                sessions[n].disconnects > 0
                    => sessions'[n].state \in {sessions[n].state, "closed"}]_vars

\* C17 witness: after two reconnects the relay iterates its third session,
\* the two before it closed, each having been disconnected once.
C17_Witness ==
    /\ relay \in {"trade", "diff"}
    /\ task.pc = "on_message"
    /\ Len(sessions) >= 3
    /\ ws = Len(sessions)
    /\ \A n \in 1..(ws - 1) :
        sessions[n].state = "closed" /\ sessions[n].disconnects = 1

\* The sessions that have been connected and not yet disconnected.
OpenSessions == {n \in DOMAIN sessions : sessions[n].state \in {"connected", "subscribed"}}

\* C20: the trade or diff relay has at most one open session at a time.
\* An error other than cancellation takes it to a backoff sleep of 5 s
\* (trades) or 30 s (diffs) with the session untouched; disconnect is invoked
\* on a session only when the backoff sleep has ended or been cancelled (or
\* when the task is cancelled while it connects, subscribes or iterates), so
\* the session stays as it was for the whole sleep; and the next session is
\* constructed only in the step in which that disconnect returns.
C20_OneOpenSessionDisconnectAfterBackoff ==
    /\ [](/\ Cardinality(OpenSessions) <= 1
          /\ task.pc = "backoff"
                => /\ task.sleep_secs = (IF relay = "trade" THEN 5 ELSE 30)
                   /\ (ws # Unbound /\ sessions[ws].disconnects = 0)
                        => sessions[ws].state # "closed")
    /\ [][/\ (task.pc \in {"connect", "subscribe", "on_message"} /\ task'.pc = "backoff")
                => /\ ws' = ws
                   /\ \A n \in DOMAIN sessions :
                        sessions'[n].disconnects = sessions[n].disconnects
          /\ task.pc = "backoff"
                => \/ UNCHANGED <<task, ws, sessions>>
                   \/ task'.pc \in {"disconnect", "failed"}
          /\ \A n \in DOMAIN sessions :
                sessions'[n].disconnects > sessions[n].disconnects
                    => /\ n = ws
                       /\ \/ task.pc = "backoff"
                          \/ /\ task.pc \in {"connect", "subscribe", "on_message"}
                             /\ task'.exc = "CancelledError"
          /\ Len(sessions') > Len(sessions)
                => /\ task.pc \in {"init", "disconnect"}
                   /\ \A n \in DOMAIN sessions :
                        sessions'[n].state = "closed" /\ sessions'[n].disconnects > 0]_vars

\* C20 witness: the diff relay, in a later iteration, is in its 30 s backoff
\* sleep after an error of the stream, its session still subscribed and not
\* disconnected, every earlier session closed.
C20_Witness ==
    /\ relay = "diff"
    /\ task.pc = "backoff"
    /\ task.sleep_secs = DIFF_BACKOFF
    /\ task.iterations >= 2
    /\ ws = Len(sessions)
    /\ sessions[ws].state = "subscribed"
    /\ sessions[ws].disconnects = 0
    /\ OpenSessions = {ws}

----------------------------------------------------------------------------
(* Claims about the one-shot REST calls, checked under RestSpec *)

\* C11: once its request has been issued, fetch_trading_pairs ends only by
\* returning or by cancellation: after a network failure of the request, a
\* status other than 200 or a failure to parse the response it has returned
\* the empty list, and no such failure reaches its caller.
C11_TradingPairsBestEffort ==
    (call.op = "fetch_trading_pairs" /\ call.pc = "done" /\ call.requests > 0)
        => /\ call.raised \in {"none", "CancelledError"}
           /\ call.raised = "none" => call.returned \in {"pairs", "empty"}
           /\ (call.raised = "none" /\ call.status # "200") => call.returned = "empty"

\* C12: get_order_book_data issues its request in the very step in which
\* acquire appends the TaskLog of the order book path, so it has issued no
\* request without a permit; and once the response has a status other than
\* 200 the call has ended with IOError carrying that status and has returned
\* nothing, a snapshot being returned only after status 200.
C12_PermitBeforeRequestThenStatusError ==
    /\ [](call.op = "get_order_book_data" =>
            /\ call.requests = call.permits
            /\ call.pc \in {"request", "json"} => call.permits > 0
            /\ call.status \notin {"none", "200"}
                    => /\ call.pc = "done"
                       /\ call.raised = "IOError"
                       /\ call.error_status = call.status
                       /\ call.returned = "none"
            /\ call.returned # "none" => call.status = "200")
    /\ [][(call'.op = "get_order_book_data" /\ call'.requests > call.requests)
            => /\ ~stop_event
               /\ task_logs' = Append(flush(task_logs), TaskLog(BookLimit))]_vars

\* C12 witness: a call was admitted, issued its request and ended with
\* IOError for status 500, while the log holds as many entries of the order
\* book path as its limit admits.
C12_Witness ==
    /\ call.op = "get_order_book_data"
    /\ call.pc = "done"
    /\ call.permits > 0
    /\ call.raised = "IOError"
    /\ call.error_status = "500"
    /\ Len(LogsOf(task_logs, GET_ORDER_BOOK_PATH_URL)) = BookLimit.limit

====
